---- MODULE Spec2Model ----
(***************************************************************************)
(* A model of the weather update service (src/weather_github_runner.py):   *)
(* main() validates its credentials, probes the candidate devices with a   *)
(* pool of probe workers, fetches the Athens weather with retries, pushes  *)
(* the temperature to the available devices in batches run by a second     *)
(* pool, merges the batch results and classifies the run by its success    *)
(* rate.                                                                   *)
(*                                                                         *)
(* Device identifiers are modelled by their number (CAL251 is 251): the    *)
(* identifiers of the range all have three digits, so the order of the     *)
(* strings is the order of the numbers.  HTTP answers are strings: a       *)
(* status code ("200", "404", ...) or the name of the exception raised.    *)
(***************************************************************************)
EXTENDS Integers, Sequences, FiniteSets, TLC

(* ------------------------------- bounds ------------------------------- *)

\* Largest candidate range of a run (the program searches 101 identifiers).
MaxCand == 3

\* Largest number of candidates that exist on the platform (most identifiers
\* of the range are unassigned).
MaxReach == 2

\* Largest scaled-down pool size and batch size tried beside the program's own.
MaxScale == 2

\* Largest number of available devices of the summary stage taken alone.
MaxSummary == 10

(* -------------------------- program constants ------------------------- *)

DEVICE_START == 251
MAX_RETRIES == 3
RETRY_DELAY == 2

\* max_workers of the discovery pool, max_workers of the dispatch pool and
\* main's batch_size.
DISCOVERY_WORKERS == 10
DISPATCH_WORKERS == 3
BATCH_SIZE == 8

\* The percentage below which main() exits with status 1.
SUCCESS_THRESHOLD == 80

(* ------------------------------ answers ------------------------------- *)

\* What the device platform may answer to the existence probe (GET).
ProbeResponses == {"200", "404", "RequestException"}

\* What the weather provider may answer: a complete payload, a 2xx payload
\* whose main.temp is no number (null, text), a 2xx payload without main.temp
\* or main.humidity, a non-2xx status (raise_for_status), a transport failure.
WeatherResponses ==
    {"ok", "temp_not_number", "missing_field", "HTTPError", "Timeout"}

\* What the device platform may answer to a push (POST): status codes, a
\* requests exception, or an exception that is no RequestException.
PushResponses == {"200", "201", "404", "500", "RequestException", "Exception"}

(* ------------------------------- state -------------------------------- *)

VARIABLES
    THINGER_TOKEN,          \* TRUE iff the environment sets it
    WEATHER_API_KEY,        \* TRUE iff the environment sets it
    probe_workers,          \* max_workers of the discovery pool
    batch_workers,          \* max_workers of the dispatch pool
    batch_size,             \* main's batch_size
    all_possible_devices,   \* the candidate list, in range order
    pc,                     \* where main() is, or how it ended
    probe,                  \* per candidate: the state of its probe future
    collected,              \* candidates whose future as_completed has yielded
    available_devices,      \* the set discover_available_devices builds
    available_device_list,  \* sorted(list(available_devices))
    cache_file,             \* device_cache.json: "none", "written", "failed"
    attempt,                \* get_athens_weather's loop variable
    wsleep,                 \* last time.sleep of get_athens_weather, in ms
    wlast,                  \* the provider's answer to the last GET
    weather,                \* "None", "reading", "reading_not_float"
    batches,                \* the slices submitted to the dispatch pool
    bstate,                 \* per batch: queued, running, done, raised, merged
    bidx,                   \* per batch: index of the device being pushed
    battempt,               \* per batch: send_to_thinger_api's loop variable
    bres,                   \* per batch: process_device_batch's results dict
    bsleep,                 \* per batch: the time.sleep its thread is in, in ms
    posts,                  \* per device: POST requests issued
    last,                   \* per device: the last answer to a POST
    result,                 \* per device: what send_to_thinger_api returned
    total_success,
    total_failed,
    total_not_found,        \* main.py's third counter (the runner has none)
    heartbeat_file          \* last_run.txt: "none", "written", "failed"

config == <<THINGER_TOKEN, WEATHER_API_KEY, probe_workers, batch_workers,
            batch_size, all_possible_devices>>
discovery == <<probe, collected, available_devices>>
fetch == <<attempt, wsleep, wlast, weather>>
pool == <<batches, bstate, bidx, battempt, bres, bsleep>>
pushes == <<posts, last, result>>
totals == <<total_success, total_failed, total_not_found>>
files == <<cache_file, heartbeat_file>>

vars == <<config, pc, discovery, available_device_list, fetch, pool, pushes,
          totals, files>>

(* ------------------------------ helpers ------------------------------- *)

Range(s) == {s[i] : i \in 1..Len(s)}

Candidates == Range(all_possible_devices)

Min(S) == CHOOSE x \in S : \A y \in S : x <= y

\* [f"{DEVICE_PREFIX}{i}" for i in range(DEVICE_START, DEVICE_END + 1)]
DeviceRange(n) == [i \in 1..n |-> DEVICE_START + i - 1]

\* sorted(list(available_devices))
RECURSIVE sorted(_)
sorted(S) == IF S = {} THEN <<>> ELSE <<Min(S)>> \o sorted(S \ {Min(S)})

\* The pool sizes and the batch size of a run: the program's own, and
\* scaled-down ones (pools and batches smaller than the program's own) that
\* make the pools and the batches fill up on the small device ranges
\* explored here.
Configs ==
    {[probe_workers |-> DISCOVERY_WORKERS, batch_workers |-> DISPATCH_WORKERS,
      batch_size |-> BATCH_SIZE]}
    \cup {[probe_workers |-> w, batch_workers |-> w, batch_size |-> s] :
            w \in 1..Min({MaxScale, DISPATCH_WORKERS - 1}),
            s \in 1..Min({MaxScale, BATCH_SIZE - 1})}

(* ------------------------- the code's functions ----------------------- *)

\* A probe that takes a failed request for an existing device.
check_device_exists_lenient(answer) == answer # "404"

\* check_device_exists: True on status 200, False on any other status and on
\* any exception.
check_device_exists(answer) == answer = "200"

\* A fetch loop that sleeps RETRY_DELAY after every failed attempt.
weather_attempt_flat(answer, att) ==
    IF answer = "ok" THEN [kind |-> "return", value |-> "reading", sleep |-> 0]
    ELSE IF answer = "temp_not_number"
         THEN [kind |-> "return", value |-> "reading_not_float", sleep |-> 0]
    ELSE IF answer = "missing_field"
         THEN [kind |-> "raise", value |-> "None", sleep |-> 0]
    ELSE IF att < MAX_RETRIES - 1
         THEN [kind |-> "retry", value |-> "None", sleep |-> RETRY_DELAY * 1000]
    ELSE [kind |-> "return", value |-> "None", sleep |-> 0]

\* One iteration of get_athens_weather's loop, at loop variable att, on the
\* provider's answer: the reading is returned, whatever main.temp is (it is
\* not converted here), a KeyError leaves the function
\* (only requests' exceptions are caught), or the attempt failed and the loop
\* sleeps and goes on, or returns None after the last attempt.
weather_attempt(answer, att) ==
    IF answer = "ok" THEN [kind |-> "return", value |-> "reading", sleep |-> 0]
    ELSE IF answer = "temp_not_number"
         THEN [kind |-> "return", value |-> "reading_not_float", sleep |-> 0]
    ELSE IF answer = "missing_field"
         THEN [kind |-> "raise", value |-> "None", sleep |-> 0]
    ELSE IF att < MAX_RETRIES - 1
         THEN [kind |-> "retry", value |-> "None",
               sleep |-> RETRY_DELAY * (att + 1) * 1000]
    ELSE [kind |-> "return", value |-> "None", sleep |-> 0]

\* float(temperature), line 127 of both files, succeeds: the payload of the
\* push can be built.
float_ok(w) == w = "reading"

\* A push loop that retries a 404 like any other status.
send_attempt_retry404(answer, att) ==
    IF answer = "200" THEN [kind |-> "return", value |-> "True", sleep |-> 0]
    ELSE IF answer = "Exception"
         THEN [kind |-> "raise", value |-> "raised", sleep |-> 0]
    ELSE IF att < MAX_RETRIES - 1
         THEN [kind |-> "retry", value |-> "none",
               sleep |-> IF answer = "RequestException"
                         THEN RETRY_DELAY * (att + 1) * 1000
                         ELSE RETRY_DELAY * 1000]
    ELSE [kind |-> "return", value |-> "False", sleep |-> 0]

\* A push loop that gives up one attempt early.
send_attempt_short(answer, att) ==
    IF answer = "200" THEN [kind |-> "return", value |-> "True", sleep |-> 0]
    ELSE IF answer = "404"
         THEN [kind |-> "return", value |-> "False", sleep |-> 0]
    ELSE IF answer = "Exception"
         THEN [kind |-> "raise", value |-> "raised", sleep |-> 0]
    ELSE IF att < MAX_RETRIES - 2
         THEN [kind |-> "retry", value |-> "none",
               sleep |-> IF answer = "RequestException"
                         THEN RETRY_DELAY * (att + 1) * 1000
                         ELSE RETRY_DELAY * 1000]
    ELSE [kind |-> "return", value |-> "False", sleep |-> 0]

\* One iteration of send_to_thinger_api's loop, at loop variable att, on the
\* platform's answer.  Falling out of the loop after the last iteration
\* returns False.
send_attempt(answer, att) ==
    IF answer = "200" THEN [kind |-> "return", value |-> "True", sleep |-> 0]
    ELSE IF answer = "404"
         THEN [kind |-> "return", value |-> "False", sleep |-> 0]
    ELSE IF answer = "Exception"
         THEN [kind |-> "raise", value |-> "raised", sleep |-> 0]
    ELSE IF att < MAX_RETRIES - 1
         THEN [kind |-> "retry", value |-> "none",
               sleep |-> IF answer = "RequestException"
                         THEN RETRY_DELAY * (att + 1) * 1000
                         ELSE RETRY_DELAY * 1000]
    ELSE [kind |-> "return", value |-> "False", sleep |-> 0]

\* A tally that counts every device as failed.
tally_failed_only(res, value) == [res EXCEPT !.failed = @ + 1]

\* process_device_batch's tally of one device.
tally(res, value) ==
    IF value = "True"
    THEN [res EXCEPT !.success = @ + 1]
    ELSE [res EXCEPT !.failed = @ + 1]

\* available_device_list[i:i + batch_size] for i in range(0, len, batch_size)
batch_slices(list, size) ==
    [k \in 1..((Len(list) + size - 1) \div size) |->
        SubSeq(list, (k - 1) * size + 1,
               IF k * size < Len(list) THEN k * size ELSE Len(list))]

\* What main adds to the totals for a batch whose future raised.
batch_error(size) == [success |-> 0, failed |-> size]

\* A threshold that excludes the boundary.
low_success_rate_exclusive(success, available) ==
    success * 100 <= SUCCESS_THRESHOLD * available

\* success_rate = (total_success / len(available_device_list)) * 100, then
\* success_rate < 80.  The division and the product are floating point; for
\* every count up to the 101 devices of the range the comparison has the
\* result of the exact one.
low_success_rate(success, available) ==
    success * 100 < SUCCESS_THRESHOLD * available

(* ------------------------------- Init --------------------------------- *)

\* The state in which main() is entered with n candidates and configuration c.
Start(n, c, token, key) ==
    /\ THINGER_TOKEN = token
    /\ WEATHER_API_KEY = key
    /\ probe_workers = c.probe_workers
    /\ batch_workers = c.batch_workers
    /\ batch_size = c.batch_size
    /\ all_possible_devices = DeviceRange(n)
    /\ pc = "validate"
    /\ probe = [d \in Range(DeviceRange(n)) |-> "idle"]
    /\ collected = {}
    /\ available_devices = {}
    /\ available_device_list = <<>>
    /\ cache_file = "none"
    /\ attempt = 0
    /\ wsleep = 0
    /\ wlast = "none"
    /\ weather = "None"
    /\ batches = <<>>
    /\ bstate = <<>>
    /\ bidx = <<>>
    /\ battempt = <<>>
    /\ bres = <<>>
    /\ bsleep = <<>>
    /\ posts = [d \in Range(DeviceRange(n)) |-> 0]
    /\ last = [d \in Range(DeviceRange(n)) |-> "none"]
    /\ result = [d \in Range(DeviceRange(n)) |-> "none"]
    /\ total_success = 0
    /\ total_failed = 0
    /\ total_not_found = 0
    /\ heartbeat_file = "none"

Init ==
    \E n \in 1..MaxCand, c \in Configs, token \in BOOLEAN, key \in BOOLEAN :
        Start(n, c, token, key)

(* ------------------------------ main() -------------------------------- *)

\* A validation that does not look at THINGER_TOKEN.
ValidateTokenUnchecked ==
    /\ pc = "validate"
    /\ pc' = IF ~WEATHER_API_KEY THEN "Aborted" ELSE "discover"
    /\ UNCHANGED <<config, discovery, available_device_list, fetch, pool,
                   pushes, totals, files>>

\* main, lines 202-222: a missing credential ends the run; otherwise main
\* enters discover_available_devices, no probe submitted yet.
Validate ==
    /\ pc = "validate"
    /\ pc' = IF ~THINGER_TOKEN \/ ~WEATHER_API_KEY THEN "Aborted" ELSE "discover"
    /\ UNCHANGED <<config, discovery, available_device_list, fetch, pool,
                   pushes, totals, files>>

\* One executor.submit of discover_available_devices, lines 98-101: main
\* submits the probe of the next candidate of the range; the workers run the
\* probes already submitted meanwhile.
ProbeSubmit(d) ==
    /\ pc = "discover"
    /\ probe[d] = "idle"
    /\ \A e \in Candidates : e < d => probe[e] # "idle"
    /\ probe' = [probe EXCEPT ![d] = "queued"]
    /\ UNCHANGED <<config, pc, collected, available_devices,
                   available_device_list, fetch, pool, pushes, totals, files>>

Running == {d \in Candidates : probe[d] = "running"}

\* A free worker of the discovery pool takes the oldest queued probe.
ProbeStart(d) ==
    /\ pc = "discover"
    /\ probe[d] = "queued"
    /\ \A e \in Candidates : e < d => probe[e] # "queued"
    /\ Cardinality(Running) < probe_workers
    /\ probe' = [probe EXCEPT ![d] = "running"]
    /\ UNCHANGED <<config, pc, collected, available_devices,
                   available_device_list, fetch, pool, pushes, totals, files>>

\* The platform answers the GET of check_device_exists (or the request
\* fails): the future completes.  At most MaxReach candidates exist.
ProbeFinish(d, answer) ==
    /\ pc = "discover"
    /\ probe[d] = "running"
    /\ answer = "200" =>
           Cardinality({e \in Candidates : probe[e] = "200"}) < MaxReach
    /\ probe' = [probe EXCEPT ![d] = answer]
    /\ UNCHANGED <<config, pc, collected, available_devices,
                   available_device_list, fetch, pool, pushes, totals, files>>

\* One iteration of the as_completed loop of discover_available_devices,
\* entered when every probe has been submitted.
Collect(d) ==
    /\ pc = "discover"
    /\ \A e \in Candidates : probe[e] # "idle"
    /\ probe[d] \in ProbeResponses
    /\ d \notin collected
    /\ collected' = collected \cup {d}
    /\ available_devices' =
           IF check_device_exists(probe[d])
           THEN available_devices \cup {d}
           ELSE available_devices
    /\ UNCHANGED <<config, pc, probe, available_device_list, fetch, pool,
                   pushes, totals, files>>

\* discover_available_devices returns; main, lines 224-236: no available
\* device ends the run, otherwise the list is sorted and the cache file is
\* written (a failed write is only logged).  The futures are gone.
\* A discovery whose cache write, when it fails, ends the run.
DiscoverReturnFatal(written) ==
    /\ pc = "discover"
    /\ collected = Candidates
    /\ probe' = [d \in Candidates |-> "idle"]
    /\ collected' = {}
    /\ IF available_devices = {}
       THEN /\ pc' = "Aborted"
            /\ UNCHANGED <<available_device_list, cache_file>>
       ELSE /\ pc' = IF written THEN "weather" ELSE "Aborted"
            /\ available_device_list' = sorted(available_devices)
            /\ cache_file' = IF written THEN "written" ELSE "failed"
    /\ UNCHANGED <<config, available_devices, fetch, pool, pushes, totals,
                   heartbeat_file>>

DiscoverReturn(written) ==
    /\ pc = "discover"
    /\ collected = Candidates
    /\ probe' = [d \in Candidates |-> "idle"]
    /\ collected' = {}
    /\ IF available_devices = {}
       THEN /\ pc' = "Aborted"
            /\ UNCHANGED <<available_device_list, cache_file>>
       ELSE /\ pc' = "weather"
            /\ available_device_list' = sorted(available_devices)
            /\ cache_file' = IF written THEN "written" ELSE "failed"
    /\ UNCHANGED <<config, available_devices, fetch, pool, pushes, totals,
                   heartbeat_file>>

\* One iteration of get_athens_weather's loop: the GET and what follows it.
\* A KeyError is caught neither here nor in main: the process dies of it.
GetWeather(answer) ==
    /\ pc = "weather"
    /\ LET step == weather_attempt(answer, attempt) IN
       /\ weather' = step.value
       /\ wlast' = answer
       /\ IF step.kind = "retry"
          THEN /\ attempt' = attempt + 1
               /\ wsleep' = step.sleep
               /\ pc' = "weather"
          ELSE /\ UNCHANGED <<attempt, wsleep>>
               /\ pc' = IF step.kind = "raise" THEN "Crashed" ELSE "fetched"
    /\ UNCHANGED <<config, discovery, available_device_list, pool, pushes,
                   totals, files>>

\* A main that dispatches whether or not the fetch returned a reading.
AfterWeatherUnchecked ==
    /\ pc = "fetched"
    /\ pc' = "dispatch"
    /\ attempt' = 0
    /\ wsleep' = 0
    /\ wlast' = "none"
    /\ UNCHANGED <<config, discovery, available_device_list, weather, pool,
                   pushes, totals, files>>

\* A main that dispatches to every candidate searched.
AfterWeatherAllCandidates ==
    /\ pc = "fetched"
    /\ IF weather = "None"
       THEN /\ pc' = "Aborted"
            /\ UNCHANGED <<attempt, wsleep, wlast, available_device_list>>
       ELSE /\ pc' = "dispatch"
            /\ attempt' = 0
            /\ wsleep' = 0
            /\ wlast' = "none"
            /\ available_device_list' = all_possible_devices
    /\ UNCHANGED <<config, discovery, weather, pool, pushes, totals, files>>

\* main, lines 239-256: without a reading the run ends; otherwise main opens
\* the dispatch pool, no batch submitted yet.  The locals of
\* get_athens_weather are gone.
AfterWeather ==
    /\ pc = "fetched"
    /\ IF weather = "None"
       THEN /\ pc' = "Aborted"
            /\ UNCHANGED <<attempt, wsleep, wlast>>
       ELSE /\ pc' = "dispatch"
            /\ attempt' = 0
            /\ wsleep' = 0
            /\ wlast' = "none"
    /\ UNCHANGED <<config, discovery, available_device_list, weather, pool,
                   pushes, totals, files>>

\* The batches main is to submit.
Slices == batch_slices(available_device_list, batch_size)

\* main has left the submit loop.
AllSubmitted == Len(batches) = Len(Slices)

\* One iteration of main's submit loop, lines 258-265: the next slice of the
\* list is submitted to the dispatch pool; the workers run the batches
\* already submitted meanwhile.
SubmitBatch ==
    /\ pc = "dispatch"
    /\ ~AllSubmitted
    /\ batches' = Append(batches, Slices[Len(batches) + 1])
    /\ bstate' = Append(bstate, "queued")
    /\ bidx' = Append(bidx, 0)
    /\ battempt' = Append(battempt, 0)
    /\ bres' = Append(bres, [success |-> 0, failed |-> 0])
    /\ bsleep' = Append(bsleep, 0)
    /\ UNCHANGED <<config, pc, discovery, available_device_list, fetch,
                   pushes, totals, files>>

Busy == {k \in DOMAIN batches : bstate[k] = "running"}

\* A dispatch pool that starts every submitted batch at once.
BatchStartUncapped(b) ==
    /\ pc = "dispatch"
    /\ b \in DOMAIN batches
    /\ bstate[b] = "queued"
    /\ \A k \in DOMAIN batches : k < b => bstate[k] # "queued"
    /\ IF float_ok(weather)
       THEN /\ bstate' = [bstate EXCEPT ![b] = "running"]
            /\ bidx' = [bidx EXCEPT ![b] = 1]
            /\ UNCHANGED result
       ELSE /\ bstate' = [bstate EXCEPT ![b] = "raised"]
            /\ result' = [result EXCEPT ![batches[b][1]] = "raised"]
            /\ UNCHANGED bidx
    /\ UNCHANGED <<config, pc, discovery, available_device_list, fetch,
                   batches, battempt, bres, bsleep, posts, last, totals,
                   files>>

\* A free worker of the dispatch pool takes the oldest queued batch and
\* enters process_device_batch, up to the first POST.  send_to_thinger_api
\* builds its payload first: a temperature that float() does not take makes
\* the call of the first device raise before any POST, and the future with it.
BatchStart(b) ==
    /\ pc = "dispatch"
    /\ b \in DOMAIN batches
    /\ bstate[b] = "queued"
    /\ \A k \in DOMAIN batches : k < b => bstate[k] # "queued"
    /\ Cardinality(Busy) < batch_workers
    /\ IF float_ok(weather)
       THEN /\ bstate' = [bstate EXCEPT ![b] = "running"]
            /\ bidx' = [bidx EXCEPT ![b] = 1]
            /\ UNCHANGED result
       ELSE /\ bstate' = [bstate EXCEPT ![b] = "raised"]
            /\ result' = [result EXCEPT ![batches[b][1]] = "raised"]
            /\ UNCHANGED bidx
    /\ UNCHANGED <<config, pc, discovery, available_device_list, fetch,
                   batches, battempt, bres, bsleep, posts, last, totals,
                   files>>

\* One POST of send_to_thinger_api for the device batch b is at, and what
\* follows it up to the thread's next time.sleep: a failed attempt before the
\* last one sleeps before the next attempt (lines 142, 147); a call that
\* returns is tallied by process_device_batch, which then sleeps 0.1 s (line
\* 164); an exception that is no RequestException leaves both functions at
\* once: the future raises.
Post(b, answer) ==
    /\ pc = "dispatch"
    /\ b \in DOMAIN batches
    /\ bstate[b] = "running"
    /\ bsleep[b] = 0
    /\ LET d == batches[b][bidx[b]]
           step == send_attempt(answer, battempt[b])
       IN
       /\ posts' = [posts EXCEPT ![d] = @ + 1]
       /\ last' = [last EXCEPT ![d] = answer]
       /\ result' = [result EXCEPT ![d] = step.value]
       /\ IF step.kind = "retry"
          THEN /\ bsleep' = [bsleep EXCEPT ![b] = step.sleep]
               /\ UNCHANGED <<bstate, bres>>
          ELSE IF step.kind = "raise"
          THEN /\ bstate' = [bstate EXCEPT ![b] = "raised"]
               /\ UNCHANGED <<bres, bsleep>>
          ELSE /\ bres' = [bres EXCEPT ![b] = tally(@, step.value)]
               /\ bsleep' = [bsleep EXCEPT ![b] = 100]
               /\ UNCHANGED bstate
    /\ UNCHANGED <<config, pc, discovery, available_device_list, fetch,
                   batches, bidx, battempt, totals, files>>

\* The time.sleep the thread of batch b is in ends.  After a failed attempt
\* send_to_thinger_api's loop goes to its next attempt; after the tally of a
\* device process_device_batch goes to the next device, or returns its
\* results after the last one.
SleepOver(b) ==
    /\ pc = "dispatch"
    /\ b \in DOMAIN batches
    /\ bstate[b] = "running"
    /\ bsleep[b] > 0
    /\ bsleep' = [bsleep EXCEPT ![b] = 0]
    /\ IF result[batches[b][bidx[b]]] = "none"
       THEN /\ battempt' = [battempt EXCEPT ![b] = @ + 1]
            /\ UNCHANGED <<bstate, bidx>>
       ELSE /\ battempt' = [battempt EXCEPT ![b] = 0]
            /\ IF bidx[b] = Len(batches[b])
               THEN /\ bstate' = [bstate EXCEPT ![b] = "done"]
                    /\ UNCHANGED bidx
               ELSE /\ bidx' = [bidx EXCEPT ![b] = @ + 1]
                    /\ UNCHANGED bstate
    /\ UNCHANGED <<config, pc, discovery, available_device_list, fetch,
                   batches, bres, pushes, totals, files>>

\* A merge that also takes the running tally of a batch still executing.
MergeEager(b) ==
    /\ pc = "dispatch"
    /\ b \in DOMAIN batches
    /\ AllSubmitted
    /\ bstate[b] \in {"running", "done", "raised"}
    /\ LET r == IF bstate[b] = "raised" THEN batch_error(batch_size) ELSE bres[b]
       IN /\ total_success' = total_success + r.success
          /\ total_failed' = total_failed + r.failed
    /\ bstate' = [bstate EXCEPT ![b] = "merged"]
    /\ UNCHANGED total_not_found
    /\ UNCHANGED <<config, pc, discovery, available_device_list, fetch,
                   batches, bidx, battempt, bres, bsleep, pushes, files>>

\* A merge that assigns the results of a batch to the totals.
MergeOverwrite(b) ==
    /\ pc = "dispatch"
    /\ b \in DOMAIN batches
    /\ AllSubmitted
    /\ bstate[b] \in {"done", "raised"}
    /\ LET r == IF bstate[b] = "done" THEN bres[b] ELSE batch_error(batch_size)
       IN /\ total_success' = r.success
          /\ total_failed' = r.failed
    /\ bstate' = [bstate EXCEPT ![b] = "merged"]
    /\ UNCHANGED total_not_found
    /\ UNCHANGED <<config, pc, discovery, available_device_list, fetch,
                   batches, bidx, battempt, bres, bsleep, pushes, files>>

\* A merge without the except branch: the exception of a batch future leaves
\* main.
MergeUncaught(b) ==
    /\ pc = "dispatch"
    /\ b \in DOMAIN batches
    /\ AllSubmitted
    /\ bstate[b] \in {"done", "raised"}
    /\ IF bstate[b] = "done"
       THEN /\ total_success' = total_success + bres[b].success
            /\ total_failed' = total_failed + bres[b].failed
            /\ UNCHANGED pc
       ELSE /\ pc' = "Crashed"
            /\ UNCHANGED <<total_success, total_failed>>
    /\ bstate' = [bstate EXCEPT ![b] = "merged"]
    /\ UNCHANGED total_not_found
    /\ UNCHANGED <<config, discovery, available_device_list, fetch,
                   batches, bidx, battempt, bres, bsleep, pushes, files>>

\* One iteration of main's as_completed loop, lines 268-275: the results of a
\* completed batch are added to the totals; for a future that raised,
\* batch_size is added to total_failed.
Merge(b) ==
    /\ pc = "dispatch"
    /\ b \in DOMAIN batches
    /\ AllSubmitted
    /\ bstate[b] \in {"done", "raised"}
    /\ LET r == IF bstate[b] = "done" THEN bres[b] ELSE batch_error(batch_size)
       IN /\ total_success' = total_success + r.success
          /\ total_failed' = total_failed + r.failed
    /\ bstate' = [bstate EXCEPT ![b] = "merged"]
    /\ UNCHANGED total_not_found
    /\ UNCHANGED <<config, pc, discovery, available_device_list, fetch,
                   batches, bidx, battempt, bres, bsleep, pushes, files>>

\* main has left the as_completed loop of the dispatch.
AllMerged == AllSubmitted /\ \A k \in DOMAIN batches : bstate[k] = "merged"

\* A summary that takes the rate over the candidates searched.
SummarizeOverSearched(written) ==
    /\ pc = "dispatch"
    /\ AllMerged
    /\ heartbeat_file' = IF written THEN "written" ELSE "failed"
    /\ pc' = IF available_device_list # <<>>
                /\ low_success_rate(total_success, Len(all_possible_devices))
             THEN "Failed"
             ELSE "Passed"
    /\ UNCHANGED <<config, discovery, available_device_list, fetch, pool,
                   pushes, totals, cache_file>>

\* main, lines 277-306: the heartbeat file is written (a failed write is only
\* logged), the summary is logged, and a success rate under the threshold
\* ends the process with exit(1).
Summarize(written) ==
    /\ pc = "dispatch"
    /\ AllMerged
    /\ heartbeat_file' = IF written THEN "written" ELSE "failed"
    /\ pc' = IF available_device_list # <<>>
                /\ low_success_rate(total_success, Len(available_device_list))
             THEN "Failed"
             ELSE "Passed"
    /\ UNCHANGED <<config, discovery, available_device_list, fetch, pool,
                   pushes, totals, cache_file>>

(* --------------------------- specifications --------------------------- *)

Next ==
    \/ Validate
    \/ \E d \in Candidates : ProbeSubmit(d)
    \/ \E d \in Candidates : ProbeStart(d)
    \/ \E d \in Candidates, answer \in ProbeResponses : ProbeFinish(d, answer)
    \/ \E d \in Candidates : Collect(d)
    \/ \E written \in BOOLEAN : DiscoverReturn(written)
    \/ \E answer \in WeatherResponses : GetWeather(answer)
    \/ AfterWeather
    \/ SubmitBatch
    \/ \E b \in DOMAIN batches : BatchStart(b)
    \/ \E b \in DOMAIN batches, answer \in PushResponses : Post(b, answer)
    \/ \E b \in DOMAIN batches : SleepOver(b)
    \/ \E b \in DOMAIN batches : Merge(b)
    \/ \E written \in BOOLEAN : Summarize(written)

\* A whole run of main().
Spec == Init /\ [][Next]_vars

\* A whole run in which main and every pool thread keep being scheduled and
\* every request is answered or times out (all requests carry a timeout).
FairSpec == Spec /\ WF_vars(Next)

\* The state main() is in when the last batch of n available devices has been
\* merged, the first k devices of the list having answered 200 to their
\* first POST and the others 404, under the program's own configuration.
Dispatched(n, k) ==
    LET list == DeviceRange(n)
        devs == Range(list)
        b == batch_slices(list, BATCH_SIZE)
        ok(d) == d < DEVICE_START + k
    IN
    /\ THINGER_TOKEN = TRUE
    /\ WEATHER_API_KEY = TRUE
    /\ probe_workers = DISCOVERY_WORKERS
    /\ batch_workers = DISPATCH_WORKERS
    /\ batch_size = BATCH_SIZE
    /\ all_possible_devices = list
    /\ pc = "dispatch"
    /\ probe = [d \in devs |-> "idle"]
    /\ collected = {}
    /\ available_devices = devs
    /\ available_device_list = list
    /\ cache_file = "written"
    /\ attempt = 0
    /\ wsleep = 0
    /\ wlast = "none"
    /\ weather = "reading"
    /\ batches = b
    /\ bstate = [j \in DOMAIN b |-> "merged"]
    /\ bidx = [j \in DOMAIN b |-> Len(b[j])]
    /\ battempt = [j \in DOMAIN b |-> 0]
    /\ bres = [j \in DOMAIN b |->
                 [success |-> Cardinality({d \in Range(b[j]) : ok(d)}),
                  failed |-> Cardinality({d \in Range(b[j]) : ~ok(d)})]]
    /\ bsleep = [j \in DOMAIN b |-> 0]
    /\ posts = [d \in devs |-> 1]
    /\ last = [d \in devs |-> IF ok(d) THEN "200" ELSE "404"]
    /\ result = [d \in devs |-> IF ok(d) THEN "True" ELSE "False"]
    /\ total_success = k
    /\ total_failed = n - k
    /\ total_not_found = 0
    /\ heartbeat_file = "none"

InitSummary == \E n \in 1..MaxSummary : \E k \in 0..n : Dispatched(n, k)

NextSummary == \E written \in BOOLEAN : Summarize(written)

\* The summary stage of main() alone, on every count of delivered devices
\* among up to MaxSummary available ones.
SpecSummary == InitSummary /\ [][NextSummary]_vars

(* ---------------- the looping service: update_all_devices ------------- *)

\* update_all_devices' batch_size and the max_workers of its pool.
SERVICE_BATCH_SIZE == 10
SERVICE_WORKERS == 5

\* The pool size and the batch size of an update cycle: the service's own,
\* and scaled-down ones.
ServiceConfigs ==
    {[batch_workers |-> SERVICE_WORKERS, batch_size |-> SERVICE_BATCH_SIZE]}
    \cup {[batch_workers |-> w, batch_size |-> s] :
            w \in 1..Min({MaxScale, SERVICE_WORKERS - 1}),
            s \in 1..Min({MaxScale, SERVICE_BATCH_SIZE - 1})}

\* What the device platform may answer to the service's push: status codes,
\* a requests exception, or an exception that is no RequestException.
ServicePushResponses ==
    {"200", "201", "404", "500", "RequestException", "Exception"}

\* The service's get_athens_weather: one GET, no retry.
get_athens_weather(answer) ==
    IF answer = "ok" THEN [kind |-> "return", value |-> "reading"]
    ELSE IF answer = "temp_not_number"
         THEN [kind |-> "return", value |-> "reading_not_float"]
    ELSE IF answer = "missing_field" THEN [kind |-> "raise", value |-> "None"]
    ELSE [kind |-> "return", value |-> "None"]

\* The service's send_to_thinger_api: one POST, True on status 200, False on
\* another status or a RequestException; any other exception leaves it.
send_to_thinger_api(answer) ==
    IF answer = "200" THEN "True"
    ELSE IF answer = "Exception" THEN "raised"
    ELSE "False"

\* The pool of update_all_devices is open: its workers run.  After an
\* exception in main the with block still waits for them.
ServicePoolOpen == pc \in {"submit", "unwinding"}

\* The service's process_device_batch going on after the device at position
\* i of batch b: to the next device, or returning its results.
Advance(b) ==
    IF bidx[b] = Len(batches[b])
    THEN /\ bstate' = [bstate EXCEPT ![b] = "done"]
         /\ UNCHANGED bidx
    ELSE /\ bidx' = [bidx EXCEPT ![b] = @ + 1]
         /\ UNCHANGED bstate

\* The state in which update_all_devices is entered with n configured
\* devices; the credentials are constants of the service's source.
ServiceStart(n, c) ==
    /\ THINGER_TOKEN = TRUE
    /\ WEATHER_API_KEY = TRUE
    /\ probe_workers = 0
    /\ batch_workers = c.batch_workers
    /\ batch_size = c.batch_size
    /\ all_possible_devices = DeviceRange(n)
    /\ pc = "update"
    /\ probe = [d \in Range(DeviceRange(n)) |-> "idle"]
    /\ collected = {}
    /\ available_devices = {}
    /\ available_device_list = <<>>
    /\ cache_file = "none"
    /\ attempt = 0
    /\ wsleep = 0
    /\ wlast = "none"
    /\ weather = "None"
    /\ batches = <<>>
    /\ bstate = <<>>
    /\ bidx = <<>>
    /\ battempt = <<>>
    /\ bres = <<>>
    /\ bsleep = <<>>
    /\ posts = [d \in Range(DeviceRange(n)) |-> 0]
    /\ last = [d \in Range(DeviceRange(n)) |-> "none"]
    /\ result = [d \in Range(DeviceRange(n)) |-> "none"]
    /\ total_success = 0
    /\ total_failed = 0
    /\ total_not_found = 0
    /\ heartbeat_file = "none"

InitService ==
    \E n \in 0..MaxCand, c \in ServiceConfigs : ServiceStart(n, c)

\* update_all_devices, lines 167-190: no devices or no weather ends the
\* cycle; a KeyError of get_athens_weather leaves update_all_devices;
\* otherwise the batches are cut, to be submitted one by one.
ServiceFetch(answer) ==
    /\ pc = "update"
    /\ IF all_possible_devices = <<>>
       THEN /\ pc' = "Skipped"
            /\ UNCHANGED <<fetch, pool>>
       ELSE LET step == get_athens_weather(answer)
                b == batch_slices(all_possible_devices, batch_size)
            IN
            /\ wlast' = answer
            /\ weather' = step.value
            /\ UNCHANGED <<attempt, wsleep>>
            /\ IF step.kind = "raise"
               THEN pc' = "Crashed" /\ UNCHANGED pool
               ELSE IF step.value = "None"
               THEN pc' = "Skipped" /\ UNCHANGED pool
               ELSE /\ pc' = "submit"
                    /\ batches' = b
                    /\ bstate' = [k \in DOMAIN b |-> "new"]
                    /\ bidx' = [k \in DOMAIN b |-> 0]
                    /\ battempt' = [k \in DOMAIN b |-> 0]
                    /\ bres' = [k \in DOMAIN b |->
                                  [success |-> 0, failed |-> 0, not_found |-> 0]]
                    /\ bsleep' = [k \in DOMAIN b |-> 0]
    /\ UNCHANGED <<config, discovery, available_device_list, pushes, totals,
                   files>>

\* One iteration of the submit loop, lines 192-204: the next batch goes to
\* the pool.
ServiceSubmit(b) ==
    /\ pc = "submit"
    /\ b \in DOMAIN batches
    /\ bstate[b] = "new"
    /\ \A k \in DOMAIN batches : k < b => bstate[k] # "new"
    /\ bstate' = [bstate EXCEPT ![b] = "queued"]
    /\ UNCHANGED <<config, pc, discovery, available_device_list, fetch,
                   batches, bidx, battempt, bres, bsleep, pushes, totals,
                   files>>

\* A free worker of the service's pool takes the oldest queued batch.
ServiceBatchStart(b) ==
    /\ ServicePoolOpen
    /\ b \in DOMAIN batches
    /\ bstate[b] = "queued"
    /\ \A k \in DOMAIN batches : k < b => bstate[k] # "queued"
    /\ Cardinality(Busy) < batch_workers
    /\ bstate' = [bstate EXCEPT ![b] = "running"]
    /\ bidx' = [bidx EXCEPT ![b] = 1]
    /\ UNCHANGED <<config, pc, discovery, available_device_list, fetch,
                   batches, battempt, bres, bsleep, pushes, totals, files>>

\* The service's process_device_batch, lines 150-157, up to the POST: the
\* existence probe of the device the batch is at; a device that does not
\* exist is counted not_found and the loop continues with the next device;
\* for one that exists send_to_thinger_api builds its payload, and a
\* temperature that float() does not take makes it raise before the POST.
ServiceProbe(b, answer) ==
    /\ ServicePoolOpen
    /\ b \in DOMAIN batches
    /\ bstate[b] = "running"
    /\ LET d == batches[b][bidx[b]] IN
       /\ probe[d] = "idle"
       /\ probe' = [probe EXCEPT ![d] = answer]
       /\ IF ~check_device_exists(answer)
          THEN /\ bres' = [bres EXCEPT ![b].not_found = @ + 1]
               /\ Advance(b)
               /\ UNCHANGED result
          ELSE IF float_ok(weather)
          THEN UNCHANGED <<bstate, bidx, bres, result>>
          ELSE /\ bstate' = [bstate EXCEPT ![b] = "raised"]
               /\ result' = [result EXCEPT ![d] = "raised"]
               /\ UNCHANGED <<bidx, bres>>
    /\ UNCHANGED <<config, pc, collected, available_devices,
                   available_device_list, fetch, batches, battempt, bsleep,
                   posts, last, totals, files>>

\* The service's process_device_batch, lines 159-163: the one POST of the
\* device just probed, tallied success or failed; an exception that
\* send_to_thinger_api does not catch leaves the batch: the future raises.
ServicePost(b, answer) ==
    /\ ServicePoolOpen
    /\ b \in DOMAIN batches
    /\ bstate[b] = "running"
    /\ LET d == batches[b][bidx[b]]
           value == send_to_thinger_api(answer)
       IN
       /\ probe[d] = "200"
       /\ posts' = [posts EXCEPT ![d] = @ + 1]
       /\ last' = [last EXCEPT ![d] = answer]
       /\ result' = [result EXCEPT ![d] = value]
       /\ IF value = "raised"
          THEN /\ bstate' = [bstate EXCEPT ![b] = "raised"]
               /\ UNCHANGED <<bidx, bres>>
          ELSE /\ bres' = [bres EXCEPT ![b] = tally(@, value)]
               /\ Advance(b)
    /\ UNCHANGED <<config, pc, discovery, available_device_list, fetch,
                   batches, battempt, bsleep, totals, files>>

\* One iteration of the collection loop, lines 206-211, entered when every
\* batch has been submitted: future.result() of the next future in
\* submission order, added to the three totals; the exception of a future
\* that raised is raised again in update_all_devices, which has no handler.
ServiceCollect(b) ==
    /\ pc = "submit"
    /\ b \in DOMAIN batches
    /\ \A k \in DOMAIN batches : bstate[k] # "new"
    /\ \A k \in DOMAIN batches : k < b => bstate[k] = "merged"
    /\ bstate[b] \in {"done", "raised"}
    /\ IF bstate[b] = "done"
       THEN /\ total_success' = total_success + bres[b].success
            /\ total_failed' = total_failed + bres[b].failed
            /\ total_not_found' = total_not_found + bres[b].not_found
            /\ bstate' = [bstate EXCEPT ![b] = "merged"]
            /\ UNCHANGED pc
       ELSE /\ pc' = "unwinding"
            /\ UNCHANGED <<totals, bstate>>
    /\ UNCHANGED <<config, discovery, available_device_list, fetch,
                   batches, bidx, battempt, bres, bsleep, pushes, files>>

\* The with block of update_all_devices is left on an exception once every
\* submitted batch has run: the exception leaves update_all_devices.
ServiceRaise ==
    /\ pc = "unwinding"
    /\ \A k \in DOMAIN batches : bstate[k] \in {"done", "raised", "merged"}
    /\ pc' = "Crashed"
    /\ UNCHANGED <<config, discovery, available_device_list, fetch, pool,
                   pushes, totals, files>>

\* update_all_devices, lines 213-224: the summary is logged and the cycle
\* returns.
ServiceSummary ==
    /\ pc = "submit"
    /\ \A k \in DOMAIN batches : bstate[k] = "merged"
    /\ pc' = "Updated"
    /\ UNCHANGED <<config, discovery, available_device_list, fetch, pool,
                   pushes, totals, files>>

NextService ==
    \/ \E answer \in WeatherResponses : ServiceFetch(answer)
    \/ \E b \in DOMAIN batches : ServiceSubmit(b)
    \/ \E b \in DOMAIN batches : ServiceBatchStart(b)
    \/ \E b \in DOMAIN batches, answer \in ProbeResponses :
          ServiceProbe(b, answer)
    \/ \E b \in DOMAIN batches, answer \in ServicePushResponses :
          ServicePost(b, answer)
    \/ \E b \in DOMAIN batches : ServiceCollect(b)
    \/ ServiceRaise
    \/ ServiceSummary

\* One call of update_all_devices by the looping service.
SpecService == InitService /\ [][NextService]_vars

(* ------------------------------ properties ---------------------------- *)

Classified == {"Passed", "Failed", "Aborted"}

\* discover_available_devices has collected every future and is to return.
DiscoveryDone == pc = "discover" /\ collected = Candidates

\* Every batch has been merged: the totals are final.
DispatchOver == (pc = "dispatch" /\ AllMerged) \/ pc \in {"Passed", "Failed"}

\* No batch future raised.
NoBatchError == \A d \in Candidates : result[d] # "raised"

Delivered == {d \in Candidates : result[d] = "True"}
NotDelivered == {d \in Candidates : result[d] = "False"}

\* C1: when discovery returns, the set it returns is exactly the set of the
\* candidates whose probe was answered 200, whatever the order in which the
\* probes were started, answered and collected.
C1_DiscoveryExact ==
    DiscoveryDone =>
        /\ available_devices \subseteq Candidates
        /\ available_devices = {d \in Candidates : probe[d] = "200"}

C1_Witness ==
    /\ DiscoveryDone
    /\ Len(all_possible_devices) = 3
    /\ \E d \in Candidates : probe[d] = "200"
    /\ \E d \in Candidates : probe[d] = "404"
    /\ \E d \in Candidates : probe[d] = "RequestException"

\* C2: a device whose last POST was answered 404 has a call that returned
\* False, and no step issues another POST for it.
C2_NoPostAfter404 ==
    [][\A d \in Candidates :
          last[d] = "404" => (result[d] = "False" /\ posts'[d] = posts[d])]_vars

C2_Witness ==
    \E d \in Candidates :
        last[d] = "404" /\ posts[d] = MAX_RETRIES /\ result[d] = "False"

Retryable == PushResponses \ {"200", "404", "Exception"}

\* C3: a call never issues more than MAX_RETRIES POSTs; after a retryable
\* answer it goes on until it has issued MAX_RETRIES and only then returns
\* False; a 200 makes it return True at that attempt, and no POST follows.
C3_ExactlyMaxRetries ==
    /\ [](\A d \in Candidates :
            /\ posts[d] <= MAX_RETRIES
            /\ last[d] \in Retryable =>
                  IF posts[d] = MAX_RETRIES
                  THEN result[d] = "False"
                  ELSE result[d] = "none"
            /\ last[d] = "200" <=> result[d] = "True")
    /\ [][\A d \in Candidates :
            result[d] = "True" => posts'[d] = posts[d]]_vars

C3_Witness ==
    \E d, e \in Candidates :
        /\ last[d] = "RequestException"
        /\ posts[d] = MAX_RETRIES
        /\ result[d] = "False"
        /\ result[e] = "True"
        /\ posts[e] = 2

\* C4: a POST has been issued only if discovery returned a non-empty set and
\* the weather fetch returned a reading, and main is in the dispatch or past
\* it only then; a run that aborts has issued no
\* POST, and one that aborts on an empty discovery has sent no GET to the
\* weather provider either (every GET leaves attempt > 0, a reading or a
\* crash behind).
C4_PushOnlyAfterDiscoveryAndWeather ==
    /\ (\E d \in Candidates : posts[d] > 0) =>
           (available_devices # {} /\ weather = "reading")
    /\ pc \in {"dispatch", "Passed", "Failed"} =>
           (available_devices # {} /\ weather # "None")
    /\ pc = "Aborted" => \A d \in Candidates : posts[d] = 0
    /\ (pc = "Aborted" /\ available_devices = {}) =>
           (attempt = 0 /\ wsleep = 0 /\ weather = "None")

C4_Witness ==
    /\ pc = "Aborted"
    /\ available_devices # {}
    /\ weather = "None"
    /\ attempt = MAX_RETRIES - 1
    /\ \A d \in Candidates : posts[d] = 0

\* C5: when no batch raised, the final totals are the numbers of devices whose
\* call returned True and False, for every batch size and pool size of
\* Configs and every interleaving of the batch threads and the merges.
C5_TotalsAreSumOfOutcomes ==
    (DispatchOver /\ NoBatchError) =>
        /\ total_success = Cardinality(Delivered)
        /\ total_failed = Cardinality(NotDelivered)

C5_Witness ==
    /\ DispatchOver
    /\ NoBatchError
    /\ batch_size = 1
    /\ Len(batches) = 2
    /\ total_success = 1
    /\ total_failed = 1

\* C6: the run ends Passed exactly when delivered / available >= 4/5 and
\* Failed otherwise; 8 of 10 passes, 7 of 10 fails.
C6_ThresholdInclusive ==
    pc \in {"Passed", "Failed"} =>
        (pc = "Passed" <=> total_success * 5 >= Len(available_device_list) * 4)

C6_Witness ==
    /\ pc = "Passed"
    /\ Len(available_device_list) = 10
    /\ total_success = 8

\* C7: the classification is a function of the delivered count and of the
\* number of available devices alone, whatever the number of candidates
\* searched and of candidates found unavailable.
C7_RatioOverAvailable ==
    pc \in {"Passed", "Failed"} =>
        pc = IF total_success * 100
                  >= SUCCESS_THRESHOLD * Cardinality(available_devices)
             THEN "Passed" ELSE "Failed"

C7_Witness ==
    /\ pc = "Passed"
    /\ Len(all_possible_devices) = 3
    /\ Cardinality(available_devices) = 1
    /\ total_success = 1

\* C8: a device whose push was answered 404 is not counted in the failed
\* total: the failed total counts the calls that returned False on another
\* answer than 404.
C8_NotFoundNotFailed ==
    (DispatchOver /\ NoBatchError) =>
        total_failed =
            Cardinality({d \in Candidates :
                            result[d] = "False" /\ last[d] # "404"})

\* C9: merging a batch whose future raised adds the number of devices of that
\* batch to the failed total and nothing to the delivered total.
C9_BatchErrorCountsItsDevices ==
    [][\A b \in DOMAIN batches :
          (bstate[b] = "raised" /\ bstate'[b] = "merged") =>
              /\ total_failed' = total_failed + Len(batches[b])
              /\ total_success' = total_success]_vars

\* C10: a run that can take no further step has ended Passed, Failed or
\* Aborted.
C10_EveryRunClassified == pc \in Classified \/ ENABLED Next

\* C11: once the provider has answered a 2xx payload without a required
\* field, get_athens_weather has returned None to main (no further GET) and
\* the run is aborting or Aborted.
C11_MalformedPayloadAborts ==
    wlast = "missing_field" =>
        (weather = "None" /\ pc \in {"fetched", "Aborted"})

\* C12: in a run that lacks a credential no probe has left the idle state,
\* no GET has been sent to the weather provider and no POST has been issued;
\* the run is at its validation or Aborted.
C12_NoNetworkWithoutCredentials ==
    (~THINGER_TOKEN \/ ~WEATHER_API_KEY) =>
        /\ pc \in {"validate", "Aborted"}
        /\ \A d \in Candidates : probe[d] = "idle" /\ posts[d] = 0
        /\ collected = {}
        /\ wlast = "none"
        /\ weather = "None"

C12_Witness ==
    /\ pc = "Aborted"
    /\ ~THINGER_TOKEN
    /\ WEATHER_API_KEY
    /\ Len(all_possible_devices) = 3

\* C13: every device for which a POST has been issued, or for which
\* send_to_thinger_api has returned or raised, is in the set discovery
\* returned.
C13_OutcomesOnlyForAvailable ==
    \A d \in Candidates :
        (posts[d] > 0 \/ last[d] # "none" \/ result[d] # "none") =>
            d \in available_devices

C13_Witness ==
    /\ pc \in {"Passed", "Failed"}
    /\ \E d \in Candidates : d \notin available_devices /\ posts[d] = 0
    /\ \E d \in available_devices : posts[d] = MAX_RETRIES

\* C14: a run aborts only for a missing credential, an empty discovery or a
\* failed weather fetch; once discovery has returned a non-empty set and the
\* fetch a reading (usable or not), the run neither aborts nor dies, whatever
\* the probes and the pushes are answered: it has ended Passed or Failed, or it is in the
\* dispatch and can take a further step.
C14_FailuresNeverAbort ==
    /\ pc = "Aborted" =>
           \/ ~THINGER_TOKEN \/ ~WEATHER_API_KEY
           \/ available_devices = {}
           \/ weather = "None"
    /\ (available_devices # {} /\ weather # "None") =>
           \/ pc \in {"Passed", "Failed"}
           \/ pc \in {"fetched", "dispatch"} /\ ENABLED Next

C14_Witness ==
    /\ pc = "Failed"
    /\ Len(all_possible_devices) = 3
    /\ Cardinality(available_devices) = 2
    /\ \E d \in Candidates : last[d] = "404"
    /\ \E d \in Candidates : result[d] = "raised"

\* C14, as a property of the fair runs: such a run does end Passed or Failed.
C14_EndsPassedOrFailed ==
    (available_devices # {} /\ weather # "None")
        ~> (pc \in {"Passed", "Failed"})


FetchFailures == {"HTTPError", "Timeout"}

\* C15: get_athens_weather sends at most MAX_RETRIES GETs (its loop variable
\* never passes MAX_RETRIES - 1 and a GET at the last value leaves the loop);
\* an "ok" answer returns the reading at that attempt; a failed attempt k
\* before the last is followed by a sleep of RETRY_DELAY * k and attempt
\* k + 1; the last failed attempt is followed by no sleep, and None is
\* returned exactly then.
C15_WeatherRetries ==
    /\ [](/\ attempt \in 0..(MAX_RETRIES - 1)
          /\ pc = "weather" =>
                /\ wsleep = RETRY_DELAY * attempt * 1000
                /\ attempt > 0 => wlast \in FetchFailures
          /\ (pc = "fetched" /\ weather = "reading") => wlast = "ok"
          /\ (pc = "fetched" /\ weather = "reading_not_float") =>
                wlast = "temp_not_number"
          /\ (pc = "fetched" /\ weather = "None") =>
                /\ attempt = MAX_RETRIES - 1
                /\ wlast \in FetchFailures
                /\ wsleep = RETRY_DELAY * (MAX_RETRIES - 1) * 1000)
    /\ [][pc = "weather" =>
            /\ wlast' = "ok" =>
                  (pc' = "fetched" /\ weather' = "reading"
                   /\ attempt' = attempt /\ wsleep' = wsleep)
            /\ wlast' = "temp_not_number" =>
                  (pc' = "fetched" /\ weather' = "reading_not_float"
                   /\ attempt' = attempt /\ wsleep' = wsleep)
            /\ (wlast' \in FetchFailures /\ attempt < MAX_RETRIES - 1) =>
                  (pc' = "weather" /\ attempt' = attempt + 1)
            /\ attempt = MAX_RETRIES - 1 => pc' # "weather"]_vars

C15_Witness ==
    /\ pc = "fetched"
    /\ weather = "None"
    /\ attempt = 2
    /\ wsleep = 4000
    /\ wlast = "HTTPError"

\* C16: a push thread that sleeps after failed attempt k of a call (its loop
\* variable is k - 1) sleeps RETRY_DELAY * k, after a RequestException and
\* after a status answer alike.
C16_PushBackoffGrows ==
    \A b \in DOMAIN batches :
        (/\ bstate[b] = "running"
         /\ bsleep[b] > 0
         /\ result[batches[b][bidx[b]]] = "none") =>
            bsleep[b] = RETRY_DELAY * (battempt[b] + 1) * 1000

\* C17: a device whose last POST was answered with a 2xx status has a call
\* that returned True.
C17_Every2xxDelivered ==
    \A d \in Candidates : last[d] \in {"200", "201"} => result[d] = "True"

\* C17, amended: a 200 makes the call return True at that attempt, no POST
\* follows for the device and the device is tallied as a success in its
\* batch's results; a 201 is retried like an error status, up to False after
\* MAX_RETRIES POSTs.
C17_Only200Delivered ==
    /\ [](/\ \A d \in Candidates :
                /\ last[d] = "200" => result[d] = "True"
                /\ last[d] = "201" =>
                      result[d] = IF posts[d] = MAX_RETRIES
                                  THEN "False" ELSE "none"
          /\ \A b \in DOMAIN batches :
                bres[b].success =
                    Cardinality({d \in Range(batches[b]) : last[d] = "200"}))
    /\ [][\A d \in Candidates : last[d] = "200" => posts'[d] = posts[d]]_vars

C17_Witness ==
    \E d, e \in Candidates :
        /\ last[d] = "200" /\ posts[d] = 2 /\ result[d] = "True"
        /\ last[e] = "201" /\ posts[e] = MAX_RETRIES /\ result[e] = "False"
        /\ DispatchOver

\* The devices whose push call has sent a POST and has not returned.
Pushing == {d \in Candidates : posts[d] > 0 /\ result[d] = "none"}

\* C18: no more probes are running than the discovery pool has workers (10)
\* and no more batches than the dispatch pool has (3); a batch pushes its
\* devices in list order, one at a time: the devices before its position have
\* a finished call, those after it have no POST yet, so at most one device of
\* a batch is in a call and at most one per executing batch overall.
C18_PoolCapsAndBatchOrder ==
    /\ Cardinality(Running) <= probe_workers
    /\ Cardinality(Running) <= DISCOVERY_WORKERS
    /\ Cardinality(Busy) <= batch_workers
    /\ Cardinality(Busy) <= DISPATCH_WORKERS
    /\ \A b \in DOMAIN batches : \A i \in DOMAIN batches[b] :
          LET d == batches[b][i] IN
          /\ bstate[b] = "queued" => posts[d] = 0
          /\ (bstate[b] # "queued" /\ i < bidx[b]) =>
                 result[d] \in {"True", "False"}
          /\ (bstate[b] # "queued" /\ i > bidx[b]) => posts[d] = 0
    /\ \A b \in DOMAIN batches :
          /\ Cardinality(Pushing \cap Range(batches[b])) <= 1
          /\ Pushing \cap Range(batches[b]) # {} => b \in Busy
    /\ Cardinality(Pushing) <= batch_workers

C18_Witness ==
    /\ pc = "dispatch"
    /\ batch_workers = 1
    /\ Len(batches) = 2
    /\ \E b \in Busy : batches[b][bidx[b]] \in Pushing
    /\ \E b \in DOMAIN batches : bstate[b] = "queued"

\* The batch future of b raised.
Raised(b) == \E d \in Range(batches[b]) : result[d] = "raised"

\* What the merge of b adds to the totals.
Contribution(b) == IF Raised(b) THEN batch_error(batch_size) ELSE bres[b]

RECURSIVE SumContributions(_)
SumContributions(B) ==
    IF B = {} THEN [success |-> 0, failed |-> 0]
    ELSE LET b == CHOOSE k \in B : TRUE
             rest == SumContributions(B \ {b})
         IN [success |-> rest.success + Contribution(b).success,
             failed |-> rest.failed + Contribution(b).failed]

Merged == {b \in DOMAIN batches : bstate[b] = "merged"}

\* C19: the totals are the sum of what the merged batches contributed, each
\* once: they only change in a step that merges a batch whose task has
\* completed or raised, a merged batch stays merged, the running tally of a
\* batch not yet merged is no part of them, and the run is classified only
\* when every submitted batch has been merged.
C19_TotalsOnlyFromCompletedBatches ==
    /\ [](/\ total_success = SumContributions(Merged).success
          /\ total_failed = SumContributions(Merged).failed
          /\ pc \in {"Passed", "Failed"} => (batches # <<>> /\ AllMerged))
    /\ [][/\ <<total_success, total_failed>>' # <<total_success, total_failed>> =>
                \E b \in DOMAIN batches :
                    /\ AllSubmitted
                    /\ bstate[b] \in {"done", "raised"}
                    /\ bstate'[b] = "merged"
                    /\ \A k \in DOMAIN batches \ {b} : bstate'[k] = bstate[k]
          /\ \A b \in Merged : b \in DOMAIN batches' /\ bstate'[b] = "merged"
          /\ (pc = "dispatch" /\ pc' # "dispatch") => AllMerged]_vars

C19_Witness ==
    /\ pc = "dispatch"
    /\ Cardinality(Merged) = 1
    /\ \E b \in Busy : batches[b][bidx[b]] \in Pushing
    /\ total_success + total_failed = batch_size
    /\ batch_size = 1

\* C20: the step that writes the device cache goes on to the weather fetch
\* with the sorted list and the step that writes the heartbeat classifies the
\* run from the counters, whether the write succeeded or failed: neither
\* changes a counter, and the classification is the one the counters give.
C20_DiagnosticWritesDoNotMatter ==
    /\ [](/\ pc = "Passed" =>
                total_success * 5 >= 4 * Len(available_device_list)
          /\ pc = "Failed" =>
                total_success * 5 < 4 * Len(available_device_list))
    /\ [][/\ cache_file' # cache_file =>
                /\ pc = "discover" /\ pc' = "weather"
                /\ available_device_list' = sorted(available_devices)
                /\ UNCHANGED <<config, available_devices, fetch, pool, pushes,
                               totals, heartbeat_file>>
          /\ heartbeat_file' # heartbeat_file =>
                /\ pc = "dispatch"
                /\ pc' = IF total_success * 5 < 4 * Len(available_device_list)
                         THEN "Failed" ELSE "Passed"
                /\ UNCHANGED <<config, discovery, available_device_list, fetch,
                               pool, pushes, totals, cache_file>>]_vars

C20_Witness ==
    /\ pc = "Passed"
    /\ cache_file = "failed"
    /\ heartbeat_file = "failed"
    /\ total_success = 2

\* C21: create_heartbeat_file has been invoked (the file written, or the
\* write tried and failed) only in a run that ends Passed: never while the
\* run is not yet classified Passed, and never in a Failed or Aborted run.
C21_HeartbeatOnlyWhenPassed == heartbeat_file # "none" => pc = "Passed"

RECURSIVE Flatten(_)
Flatten(bs) == IF bs = <<>> THEN <<>> ELSE Head(bs) \o Flatten(Tail(bs))

\* C22: when every batch has been merged the delivered and failed totals add
\* up to the number of available devices, and the batches, one after the
\* other, are the sorted list of available devices (each device in exactly
\* one batch), batch errors included.
C22_TotalsCoverAvailable ==
    DispatchOver =>
        /\ total_success + total_failed = Len(available_device_list)
        /\ Flatten(batches) = available_device_list
        /\ available_device_list = sorted(available_devices)
        /\ \A b \in DOMAIN batches : batches[b] # <<>>

\* The configured devices whose existence probe was not answered 200.
NotFound == {d \in Candidates : probe[d] \notin {"idle", "200"}}

\* The configured devices process_device_batch is done with.
Handled ==
    {d \in Candidates :
        \E b \in DOMAIN batches : \E i \in DOMAIN batches[b] :
            /\ batches[b][i] = d
            /\ bstate[b] \in {"running", "done", "merged"}
            /\ (i < bidx[b] \/ bstate[b] \in {"done", "merged"})}

\* C23: in an update cycle of the looping service a device whose probe was
\* not answered 200 gets no POST and is counted not_found; a device whose
\* probe was answered 200 gets exactly one POST and is counted success when
\* that POST was answered 200 and failed otherwise; and when every batch has
\* been collected the three totals are those counts and add up to the number
\* of configured devices.
C23_ServiceSkipsMissingDevices ==
    /\ \A d \in Candidates :
          /\ posts[d] <= 1
          /\ d \in NotFound => (posts[d] = 0 /\ result[d] = "none")
          /\ posts[d] = 1 =>
                /\ probe[d] = "200"
                /\ result[d] = IF last[d] = "200" THEN "True" ELSE "False"
          /\ (d \in Handled /\ probe[d] = "200") => posts[d] = 1
          /\ d \in Handled => probe[d] # "idle"
    /\ \A b \in DOMAIN batches :
          LET devs == Range(batches[b]) IN
          /\ bres[b].not_found = Cardinality(devs \cap NotFound)
          /\ bres[b].success =
                 Cardinality({d \in devs : result[d] = "True"})
          /\ bres[b].failed =
                 Cardinality({d \in devs : result[d] = "False"})
    /\ pc = "Updated" =>
          /\ Handled = Candidates
          /\ total_not_found = Cardinality(NotFound)
          /\ total_success =
                 Cardinality({d \in Candidates : result[d] = "True"})
          /\ total_failed =
                 Cardinality({d \in Candidates : result[d] = "False"})
          /\ total_success + total_failed + total_not_found
                 = Len(all_possible_devices)

====
